---- MODULE Spec2Model ----
(***************************************************************************)
(* The fraud feature pipeline of data_utils.py and the scoring script      *)
(* run_model.py, as a state machine.                                       *)
(*                                                                         *)
(* A raw record is one parsed JSON line: a customer sub-record, a          *)
(* 'fraudulent' label and the optional lists 'orders', 'paymentMethods'    *)
(* and 'transactions'.  process_json_data flattens a batch into four       *)
(* tables; get_feature_matrix runs the base builder, the three             *)
(* aggregators and the cleaning over the customer table.  Each function    *)
(* is one action; an uncaught Python exception ends the run in pc =        *)
(* "crashed" with the exception's name in err.                             *)
(*                                                                         *)
(* pandas behaviour that the code relies on is modelled as pandas 1.x/2.x  *)
(* without copy-on-write performs it: DataFrame([]) has no columns, so     *)
(* selecting or grouping by a column of it raises KeyError; a left merge   *)
(* keeps the left rows in order; nunique skips nulls; x/0 is inf for       *)
(* x > 0 and NaN for x = 0; fillna replaces NaN and leaves inf alone;      *)
(* column.fillna(v, inplace=True) updates the frame.                       *)
(***************************************************************************)
EXTENDS Integers, Sequences, FiniteSets, TLC

VARIABLES
    batch,               \* the input batch as given, never changed
    json_data,           \* the same batch in memory; process_json_data writes into it
    pc,                  \* where the run is
    err,                 \* the uncaught exception, "none" while there is none
    run,                 \* 1 in the first pass over json_data, 2 in the second
    df_orders,           \* the four tables process_json_data returns
    df_payment_methods,
    df_transactions,
    df_customers,
    feature_matrix,      \* get_feature_matrix's two results
    user_emails,
    first,               \* what the first pass ended with, kept for the second
    y_pred_label,        \* run_model.py: the predicted labels
    output_file,         \* run_model.py: the output JSON file
    key_dtype,           \* per table, whether its customerEmail column is still as
                         \* built ("raw") or has been through astype(str) ("str")
    merges               \* the merges on customerEmail done so far in this pass

vars == <<batch, json_data, pc, err, run, df_orders, df_payment_methods,
          df_transactions, df_customers, feature_matrix, user_emails, first,
          y_pred_label, output_file, key_dtype, merges>>

-----------------------------------------------------------------------------
(* Bounds of the model *)

\* records in a batch whose records differ in email, address and label only
MaxRecords == 3
\* elements in one list of a one-record batch
MaxItems == 2
\* how far the length of a prediction list may be from the number of rows
MaxSurplus == 1

-----------------------------------------------------------------------------
(* Values *)

\* a dict key that is not there
NoKey == "<absent>"
\* JSON null
None == "<null>"

Emails == {"a@x", "b@x"}
Addresses == {"1 High St", "2 Low Rd"}
Labels == {"True", "False"}
Amounts == {10, 20}
OrderStates == {"failed", "fulfilled"}
ShippingAddresses == {"s1", "s2"}
MethodTypes == {"card", "apple pay", "paypal", "bitcoin", "other"}
MethodIds == {"p1", "p2", None}

Orders == [orderAmount : Amounts, orderState : OrderStates,
           orderShippingAddress : ShippingAddresses, customerEmail : {NoKey}]
PaymentMethods == [paymentMethodId : MethodIds, paymentMethodType : MethodTypes,
                   paymentMethodRegistrationFailure : BOOLEAN,
                   customerEmail : {NoKey}]
Transactions == [transactionAmount : Amounts, transactionFailed : BOOLEAN,
                 customerEmail : {NoKey}]

AnOrder == [orderAmount |-> 10, orderState |-> "fulfilled",
            orderShippingAddress |-> "s1", customerEmail |-> NoKey]
APaymentMethod == [paymentMethodId |-> "p1", paymentMethodType |-> "card",
                   paymentMethodRegistrationFailure |-> FALSE,
                   customerEmail |-> NoKey]
ATransaction == [transactionAmount |-> 10, transactionFailed |-> FALSE,
                 customerEmail |-> NoKey]

\* a list field of a raw record: the key may be missing from the dict
Absent == [present |-> FALSE, items |-> <<>>]
List(s) == [present |-> TRUE, items |-> s]

SeqsUpTo(S, n) == UNION {[1..k -> S] : k \in 0..n}
ListsUpTo(S, n) == {Absent} \cup {List(s) : s \in SeqsUpTo(S, n)}

\* an element that already carries a customerEmail key before the run
Prestamped(e) == [e EXCEPT !.customerEmail = "b@x"]
FewLists(e) == {Absent, List(<<>>), List(<<e>>), List(<<Prestamped(e)>>)}

Customers(E, A) == [customerEmail : E, customerBillingAddress : A,
                    fraudulent : {NoKey}]

RawRecords(E, A, L, O, P, T) ==
    [customer : Customers(E, A), fraudulent : L,
     orders : O, paymentMethods : P, transactions : T]

\* the batches the model runs on: each family varies one part of the input
\* over its whole domain and keeps the other parts to a few values
CustomerBatches ==
    SeqsUpTo(RawRecords(Emails, Addresses, Labels, {List(<<AnOrder>>)},
                        {List(<<APaymentMethod>>)}, {List(<<ATransaction>>)}),
             MaxRecords)
LabelBatches ==
    SeqsUpTo(RawRecords(Emails, {"1 High St"}, Labels \cup {NoKey},
                        {List(<<AnOrder>>)}, {List(<<APaymentMethod>>)},
                        {List(<<ATransaction>>)}), 2)
ListBatches ==
    SeqsUpTo(RawRecords({"a@x"}, {"1 High St"}, {"True"}, FewLists(AnOrder),
                        FewLists(APaymentMethod), FewLists(ATransaction)), 1)
    \cup [1..2 -> RawRecords(Emails, {"1 High St"}, {"True"},
                             FewLists(AnOrder) \ {Absent},
                             FewLists(APaymentMethod) \ {Absent},
                             FewLists(ATransaction) \ {Absent})]
\* one kind of element over its whole domain, one element of each other kind
ElementBatches(E, O, P, T) ==
    [1..1 -> RawRecords({"a@x"}, {"1 High St"}, {"True"},
                        IF E = "orders" THEN ListsUpTo(Orders, MaxItems) ELSE {O},
                        IF E = "paymentMethods"
                            THEN ListsUpTo(PaymentMethods, MaxItems) ELSE {P},
                        IF E = "transactions"
                            THEN ListsUpTo(Transactions, MaxItems) ELSE {T})]
    \cup [1..2 -> RawRecords(Emails, {"1 High St"}, {"False"},
                             IF E = "orders" THEN ListsUpTo(Orders, 1) ELSE {O},
                             IF E = "paymentMethods"
                                 THEN ListsUpTo(PaymentMethods, 1) ELSE {P},
                             IF E = "transactions"
                                 THEN ListsUpTo(Transactions, 1) ELSE {T})]
OrderBatches ==
    ElementBatches("orders", List(<<AnOrder>>), List(<<APaymentMethod>>),
                   List(<<ATransaction>>))
PaymentBatches ==
    ElementBatches("paymentMethods", List(<<AnOrder>>), List(<<APaymentMethod>>),
                   List(<<ATransaction>>))
TransactionBatches ==
    ElementBatches("transactions", List(<<AnOrder>>), List(<<APaymentMethod>>),
                   List(<<ATransaction>>))

Batches == CustomerBatches \cup LabelBatches \cup ListBatches
           \cup OrderBatches \cup PaymentBatches \cup TransactionBatches

-----------------------------------------------------------------------------
(* Floating-point cells: means and ratios.  A finite value is the reduced   *)
(* fraction num/den; NaN and inf are values of their own.                   *)

RECURSIVE Gcd(_, _)
Gcd(a, b) == IF b = 0 THEN a ELSE Gcd(b, a % b)

Num(n, d) == [kind |-> "num", num |-> n \div Gcd(n, d), den |-> d \div Gcd(n, d)]
NaN == [kind |-> "nan", num |-> 0, den |-> 0]
Inf == [kind |-> "inf", num |-> 1, den |-> 0]
Zero == Num(0, 1)

\* Series / Series on non-negative numbers
Truediv(n, d) == IF d # 0 THEN Num(n, d) ELSE IF n = 0 THEN NaN ELSE Inf

\* Series.fillna(v): NaN becomes v, every other value (inf too) stays
Fillna(x, v) == IF x = NaN THEN v ELSE x

-----------------------------------------------------------------------------
(* Frames: a frame is the sequence of its rows, a row a record of cells.    *)

\* pd.DataFrame([])
EmptyFrame == <<>>

RECURSIVE Concat(_)
Concat(ss) == IF ss = <<>> THEN <<>> ELSE Head(ss) \o Concat(Tail(ss))

RECURSIVE SumOf(_, _)
SumOf(rows, col) ==
    IF rows = <<>> THEN 0 ELSE Head(rows)[col] + SumOf(Tail(rows), col)

\* pd.DataFrame([]) has no columns: df[col] and df.groupby(col) raise KeyError
HasColumns(df) == Len(df) > 0

\* the group keys of df.groupby('customerEmail')
Keys(df) == {df[i].customerEmail : i \in DOMAIN df}
\* the rows of one group
Group(df, e) == SelectSeq(df, LAMBDA r : r.customerEmail = e)

GroupSize(df) == [e \in Keys(df) |-> Len(Group(df, e))]
GroupMean(df, col) ==
    [e \in Keys(df) |-> Truediv(SumOf(Group(df, e), col), Len(Group(df, e)))]
\* nunique leaves nulls out
GroupNunique(df, col) ==
    [e \in Keys(df) |->
        Cardinality({Group(df, e)[i][col] : i \in DOMAIN Group(df, e)} \ {None})]
\* any() over a column of strings: a non-empty string is true
GroupAny(df, col) ==
    [e \in Keys(df) |-> \E i \in DOMAIN Group(df, e) : Group(df, e)[i][col] # ""]

\* left.merge(right, on='customerEmail', how='left') and the fillna of the new
\* column: every left row stays, in order; a row with no group gets the fill
MergeLeft(left, right, col, fill) ==
    [i \in DOMAIN left |->
        left[i] @@ (col :> IF left[i].customerEmail \in DOMAIN right
                            THEN right[left[i].customerEmail] ELSE fill)]

\* df[col] = cells
AddColumn(df, col, cells) == [i \in DOMAIN df |-> df[i] @@ (col :> cells[i])]
DropColumn(df, col) ==
    [i \in DOMAIN df |-> [c \in DOMAIN df[i] \ {col} |-> df[i][c]]]
Column(df, col) == [i \in DOMAIN df |-> df[i][col]]
Columns(df) == IF df = <<>> THEN {} ELSE DOMAIN df[1]

-----------------------------------------------------------------------------
(* process_json_data *)

\* data.get(key, [])
Get(field) == IF field.present THEN field.items ELSE <<>>

\* the stamping as setdefault: an element keeps the customerEmail it came with
StampItemsKeep(items, customer_key) ==
    [i \in DOMAIN items |->
        IF items[i].customerEmail = NoKey
            THEN [items[i] EXCEPT !.customerEmail = customer_key]
            ELSE items[i]]

\* the loop skipping the elements that already carry a customerEmail
StampItemsOnce(items, customer_key) ==
    [i \in DOMAIN SelectSeq(items, LAMBDA x : x.customerEmail = NoKey) |->
        [SelectSeq(items, LAMBDA x : x.customerEmail = NoKey)[i]
            EXCEPT !.customerEmail = customer_key]]

\* the loop over one list: each element gets the owner's email, then is appended
StampItems(items, customer_key) ==
    [i \in DOMAIN items |-> [items[i] EXCEPT !.customerEmail = customer_key]]

StampField(field, customer_key) ==
    IF field.present THEN List(StampItems(field.items, customer_key)) ELSE field

\* one record after its three inner loops (the elements are written in place)
Stamped(data) ==
    [data EXCEPT !.orders = StampField(@, data.customer.customerEmail),
                 !.paymentMethods = StampField(@, data.customer.customerEmail),
                 !.transactions = StampField(@, data.customer.customerEmail)]

\* one record after the whole loop body: customer['fraudulent'] = data['fraudulent']
Labelled(data) == [Stamped(data) EXCEPT !.customer.fraudulent = data.fraudulent]

\* the first record without a 'fraudulent' key, where data['fraudulent'] raises
FirstUnlabelled(js) ==
    IF \E i \in DOMAIN js : js[i].fraudulent = NoKey
        THEN CHOOSE i \in DOMAIN js :
                /\ js[i].fraudulent = NoKey
                /\ \A k \in 1..(i - 1) : js[k].fraudulent # NoKey
        ELSE Len(js) + 1

\* json_data when the loop ends or raises
AfterLoop(js) ==
    [i \in DOMAIN js |->
        IF i < FirstUnlabelled(js) THEN Labelled(js[i])
        ELSE IF i = FirstUnlabelled(js) THEN Stamped(js[i])
        ELSE js[i]]

RECURSIVE DistinctCustomers(_)
DistinctCustomers(cs) ==
    IF cs = <<>> THEN <<>>
    ELSE IF \E k \in 1..(Len(cs) - 1) :
                cs[k].customerEmail = cs[Len(cs)].customerEmail
        THEN DistinctCustomers(SubSeq(cs, 1, Len(cs) - 1))
        ELSE Append(DistinctCustomers(SubSeq(cs, 1, Len(cs) - 1)), cs[Len(cs)])

\* the customer list keeping one customer per email
CustomersListDistinct(js) == DistinctCustomers([i \in DOMAIN js |-> js[i].customer])

OrdersList(js) == Concat([i \in DOMAIN js |-> Get(js[i].orders)])
PaymentMethodsList(js) == Concat([i \in DOMAIN js |-> Get(js[i].paymentMethods)])
TransactionsList(js) == Concat([i \in DOMAIN js |-> Get(js[i].transactions)])
CustomersList(js) == [i \in DOMAIN js |-> js[i].customer]

InPipeline(p) ==
    p \in {"normalized", "customers", "orders", "payments", "transactions"}

\* the key columns of the four frames just built by pd.DataFrame(...)
RawKeys == [orders |-> "raw", payment_methods |-> "raw", transactions |-> "raw",
            customers |-> "raw"]

\* df['customerEmail'] = df['customerEmail'].astype(str)
Coerce(k, frame) == [k EXCEPT ![frame] = "str"]

\* one df_customers.merge(..., on='customerEmail') at a source line: the left key
\* is the customer table's, the right key the grouped related table's
Merge(line, k, related) ==
    [line |-> line, left |-> k.customers, right |-> k[related]]

\* what a pass over json_data ended with
Outcome == [pc |-> pc, err |-> err, feature_matrix |-> feature_matrix,
            user_emails |-> user_emails]

Raise(e) ==
    /\ pc' = "crashed"
    /\ err' = e

ProcessJsonData ==
    /\ \/ pc = "start"
       \/ run = 1 /\ pc = "matrix"
       \/ run = 1 /\ pc = "crashed" /\ err = "KeyError"
    /\ run' = IF pc = "start" THEN run ELSE 2
    /\ first' = IF pc = "start" THEN first ELSE Outcome
    /\ json_data' = AfterLoop(json_data)
    /\ feature_matrix' = EmptyFrame
    /\ user_emails' = <<>>
    /\ IF FirstUnlabelled(json_data) <= Len(json_data)
         THEN /\ Raise("KeyError")
              /\ df_orders' = EmptyFrame
              /\ df_payment_methods' = EmptyFrame
              /\ df_transactions' = EmptyFrame
              /\ df_customers' = EmptyFrame
         ELSE /\ pc' = "normalized"
              /\ err' = "none"
              /\ df_orders' = OrdersList(json_data')
              /\ df_payment_methods' = PaymentMethodsList(json_data')
              /\ df_transactions' = TransactionsList(json_data')
              /\ df_customers' = CustomersList(json_data')
    /\ key_dtype' = RawKeys
    /\ merges' = <<>>
    /\ UNCHANGED <<batch, y_pred_label, output_file>>

-----------------------------------------------------------------------------
(* df_customers_features *)

\* groupby('customerEmail')['customerEmail'].transform('count')
EmailCount(df, r) == Len(Group(df, r.customerEmail))

\* the address count taken within each customer's own rows
DuplicateAddressesPerCustomer(df) ==
    {a \in {df[i].customerBillingAddress : i \in DOMAIN df} :
        \E e \in Keys(df) :
            Cardinality({i \in DOMAIN df : /\ df[i].customerBillingAddress = a
                                           /\ df[i].customerEmail = e}) > 1}

\* value_counts() of the billing addresses, kept where the count is above 1
DuplicateAddresses(df) ==
    {a \in {df[i].customerBillingAddress : i \in DOMAIN df} :
        Cardinality({i \in DOMAIN df : df[i].customerBillingAddress = a}) > 1}

CustomersFeatures(df) ==
    DropColumn(
        AddColumn(
            AddColumn(df, "EmailCount", [i \in DOMAIN df |-> EmailCount(df, df[i])]),
            "IsBillingAddressShared",
            [i \in DOMAIN df |->
                df[i].customerBillingAddress \in DuplicateAddresses(df)]),
        "customerBillingAddress")

DfCustomersFeatures ==
    /\ pc = "normalized"
    /\ IF HasColumns(df_customers)
         THEN /\ pc' = "customers"
              /\ df_customers' = CustomersFeatures(df_customers)
              /\ UNCHANGED err
         ELSE /\ Raise("KeyError")
              /\ UNCHANGED df_customers
    /\ UNCHANGED <<batch, json_data, run, df_orders, df_payment_methods,
                   df_transactions, feature_matrix, user_emails, first,
                   y_pred_label, output_file>>
    /\ UNCHANGED <<key_dtype, merges>>

-----------------------------------------------------------------------------
(* df_orders_features *)

\* a ratio column: numerator / denominator, then fillna(0)
Ratio(df, col, numerator, denominator) ==
    AddColumn(df, col,
              [i \in DOMAIN df |->
                  Fillna(Truediv(df[i][numerator], df[i][denominator]), Zero)])

FailedOrdersOf(orders) == SelectSeq(orders, LAMBDA o : o.orderState = "failed")

OrdersFeatures(orders, customers) ==
    MergeLeft(
        Ratio(
            MergeLeft(
                MergeLeft(
                    MergeLeft(customers, GroupSize(orders), "TotalOrders", 0),
                    GroupMean(orders, "orderAmount"), "AverageOrderAmount", Zero),
                GroupSize(FailedOrdersOf(orders)), "FailedOrders", 0),
            "FailedOrderRatio", "FailedOrders", "TotalOrders"),
        GroupNunique(orders, "orderShippingAddress"), "UniqueShippingAddresses", 0)

\* the key columns when df_orders_features returns: both are cast after the
\* first merge and before the second
OrdersKeys(k) == Coerce(Coerce(k, "orders"), "customers")

\* its merges in statement order: TotalOrders is merged on the keys as they
\* come in, the other three after the two casts
OrdersMerges(k) ==
    <<Merge(121, k, "orders"),
      Merge(132, OrdersKeys(k), "orders"),
      Merge(137, OrdersKeys(k), "orders"),
      Merge(146, OrdersKeys(k), "orders")>>

DfOrdersFeatures ==
    /\ pc = "customers"
    /\ IF HasColumns(df_orders)
         THEN /\ pc' = "orders"
              /\ df_customers' = OrdersFeatures(df_orders, df_customers)
              /\ key_dtype' = OrdersKeys(key_dtype)
              /\ merges' = merges \o OrdersMerges(key_dtype)
              /\ UNCHANGED err
         ELSE /\ Raise("KeyError")
              /\ UNCHANGED <<df_customers, key_dtype, merges>>
    /\ UNCHANGED <<batch, json_data, run, df_orders, df_payment_methods,
                   df_transactions, feature_matrix, user_emails, first,
                   y_pred_label, output_file>>

-----------------------------------------------------------------------------
(* df_payment_methods_features *)

\* the indicator without its mask: any payment method at all sets it
TypePresentUnmasked(methods, type) == GroupAny(methods, "paymentMethodType")

\* df[mask].groupby('customerEmail')['paymentMethodType'].any() for one type
TypePresent(methods, type) ==
    GroupAny(SelectSeq(methods, LAMBDA m : m.paymentMethodType = type),
             "paymentMethodType")

RegistrationFailuresOf(methods) ==
    SelectSeq(methods, LAMBDA m : m.paymentMethodRegistrationFailure = TRUE)

Indicators(methods, customers) ==
    MergeLeft(
        MergeLeft(
            MergeLeft(
                MergeLeft(customers, TypePresent(methods, "card"), "HasCard", FALSE),
                TypePresent(methods, "apple pay"), "HasApplePay", FALSE),
            TypePresent(methods, "paypal"), "HasPaypal", FALSE),
        TypePresent(methods, "bitcoin"), "HasBitcoin", FALSE)

PaymentMethodsFeatures(methods, customers) ==
    Ratio(
        MergeLeft(
            MergeLeft(
                MergeLeft(Indicators(methods, customers),
                          GroupNunique(methods, "paymentMethodType"),
                          "UniquePaymentMethodTypes", 0),
                GroupNunique(methods, "paymentMethodId"),
                "NumberOfUniquePaymentMethods", 0),
            GroupSize(RegistrationFailuresOf(methods)),
            "PaymentRegistrationFailures", 0),
        "FailureRatio", "PaymentRegistrationFailures", "NumberOfUniquePaymentMethods")

\* the payment-method key is cast first; the customer key is left as it comes
PaymentMethodsKeys(k) == Coerce(k, "payment_methods")

PaymentMethodsMerges(k) ==
    [i \in 1..7 |->
        Merge(<<176, 177, 178, 179, 187, 192, 198>>[i], PaymentMethodsKeys(k),
              "payment_methods")]

DfPaymentMethodsFeatures ==
    /\ pc = "orders"
    /\ IF HasColumns(df_payment_methods)
         THEN /\ pc' = "payments"
              /\ df_customers' =
                    PaymentMethodsFeatures(df_payment_methods, df_customers)
              /\ key_dtype' = PaymentMethodsKeys(key_dtype)
              /\ merges' = merges \o PaymentMethodsMerges(key_dtype)
              /\ UNCHANGED err
         ELSE /\ Raise("KeyError")
              /\ UNCHANGED <<df_customers, key_dtype, merges>>
    /\ UNCHANGED <<batch, json_data, run, df_orders, df_payment_methods,
                   df_transactions, feature_matrix, user_emails, first,
                   y_pred_label, output_file>>

-----------------------------------------------------------------------------
(* df_transactions_features *)

FailedTransactionsOf(transactions) ==
    SelectSeq(transactions, LAMBDA t : t.transactionFailed = TRUE)

TransactionsFeatures(transactions, customers) ==
    Ratio(
        MergeLeft(
            MergeLeft(
                MergeLeft(customers, GroupSize(transactions),
                          "NumberOfTransactions", 0),
                GroupMean(transactions, "transactionAmount"),
                "AverageTransactionAmount", Zero),
            GroupSize(FailedTransactionsOf(transactions)),
            "NumberOfFailedTransactions", 0),
        "FailedTransactionFraction", "NumberOfFailedTransactions",
        "NumberOfTransactions")

\* the transaction key is cast first; the customer key is left as it comes
TransactionsKeys(k) == Coerce(k, "transactions")

TransactionsMerges(k) ==
    [i \in 1..3 |->
        Merge(<<216, 217, 218>>[i], TransactionsKeys(k), "transactions")]

DfTransactionsFeatures ==
    /\ pc = "payments"
    /\ IF HasColumns(df_transactions)
         THEN /\ pc' = "transactions"
              /\ df_customers' = TransactionsFeatures(df_transactions, df_customers)
              /\ key_dtype' = TransactionsKeys(key_dtype)
              /\ merges' = merges \o TransactionsMerges(key_dtype)
              /\ UNCHANGED err
         ELSE /\ Raise("KeyError")
              /\ UNCHANGED <<df_customers, key_dtype, merges>>
    /\ UNCHANGED <<batch, json_data, run, df_orders, df_payment_methods,
                   df_transactions, feature_matrix, user_emails, first,
                   y_pred_label, output_file>>

-----------------------------------------------------------------------------
(* feature_matrix_cleaning *)

bool_columns == {"IsBillingAddressShared", "HasCard", "HasApplePay", "HasPaypal",
                 "HasBitcoin", "fraudulent"}

\* astype(int) of a boolean cell; the label is the JSON boolean of the record
AsInt(col, b) ==
    IF col = "fraudulent" THEN (IF b = "True" THEN 1 ELSE 0)
    ELSE IF b THEN 1 ELSE 0

RECURSIVE Dedup(_)
Dedup(es) ==
    IF es = <<>> THEN <<>>
    ELSE IF \E k \in 1..(Len(es) - 1) : es[k] = es[Len(es)]
        THEN Dedup(SubSeq(es, 1, Len(es) - 1))
        ELSE Append(Dedup(SubSeq(es, 1, Len(es) - 1)), es[Len(es)])

\* the email list without repeated emails, as unique().tolist() gives it
UniqueEmails(df) == Dedup(Column(df, "customerEmail"))

\* df_customers['customerEmail'].tolist()
UserEmails(df) == Column(df, "customerEmail")

Cleaned(df) ==
    DropColumn(
        [i \in DOMAIN df |->
            [c \in DOMAIN df[i] |->
                IF c \in bool_columns THEN AsInt(c, df[i][c]) ELSE df[i][c]]],
        "customerEmail")

FeatureMatrixCleaning ==
    /\ pc = "transactions"
    /\ IF bool_columns \subseteq Columns(df_customers)
         THEN /\ pc' = "matrix"
              /\ feature_matrix' = Cleaned(df_customers)
              /\ user_emails' = UserEmails(df_customers)
              /\ UNCHANGED err
         ELSE /\ Raise("KeyError")
              /\ UNCHANGED <<feature_matrix, user_emails>>
    /\ UNCHANGED <<batch, json_data, run, df_orders, df_payment_methods,
                   df_transactions, df_customers, first, y_pred_label, output_file>>
    /\ UNCHANGED <<key_dtype, merges>>

-----------------------------------------------------------------------------
(* run_model.py, after get_feature_matrix *)

\* separate_xy: the features without the label column
SeparateXy(df) == DropColumn(df, "fraudulent")

\* classifier.predict(X).tolist(): the classifier is loaded from a file, so the
\* model lets it return any 0/1 list whose length is within MaxSurplus of X's
Predictions(X) ==
    UNION {[1..k -> {0, 1}] :
            k \in {n \in (Len(X) - MaxSurplus)..(Len(X) + MaxSurplus) : n >= 0}}

Label(x) == IF x = 1 THEN "Fraudulent" ELSE "Not fraudulent"

\* the output file before open(..., 'w')
NoFile == [exists |-> FALSE, content |-> <<>>]

\* the assert compiled away
NoAssert(labels, emails) == TRUE

\* the assert's condition
SameLength(labels, emails) == Len(labels) = Len(emails)

\* dict(zip(user_emails, y_pred_label)): zip stops at the shorter list, and a
\* later pair replaces an earlier one with the same key
Zip(emails, labels) ==
    [e \in {emails[i] : i \in DOMAIN emails \cap DOMAIN labels} |->
        labels[CHOOSE i \in DOMAIN emails \cap DOMAIN labels :
                  /\ emails[i] = e
                  /\ \A k \in DOMAIN emails \cap DOMAIN labels :
                        emails[k] = e => k <= i]]

Predict ==
    /\ pc = "matrix"
    /\ run = 1
    /\ IF "fraudulent" \in Columns(feature_matrix)
         THEN /\ \E y_pred \in Predictions(SeparateXy(feature_matrix)) :
                    y_pred_label' = [i \in DOMAIN y_pred |-> Label(y_pred[i])]
              /\ pc' = "predicted"
              /\ UNCHANGED err
         ELSE /\ Raise("NameError")
              /\ UNCHANGED y_pred_label
    /\ UNCHANGED <<batch, json_data, run, df_orders, df_payment_methods,
                   df_transactions, df_customers, feature_matrix, user_emails,
                   first, output_file>>
    /\ UNCHANGED <<key_dtype, merges>>

AssertLengths ==
    /\ pc = "predicted"
    /\ IF SameLength(y_pred_label, user_emails)
         THEN /\ pc' = "asserted"
              /\ UNCHANGED err
         ELSE Raise("AssertionError")
    /\ UNCHANGED <<batch, json_data, run, df_orders, df_payment_methods,
                   df_transactions, df_customers, feature_matrix, user_emails,
                   first, y_pred_label, output_file>>
    /\ UNCHANGED <<key_dtype, merges>>

SaveOutput ==
    /\ pc = "asserted"
    /\ pc' = "saved"
    /\ output_file' = [exists |-> TRUE, content |-> Zip(user_emails, y_pred_label)]
    /\ UNCHANGED <<batch, json_data, err, run, df_orders, df_payment_methods,
                   df_transactions, df_customers, feature_matrix, user_emails,
                   first, y_pred_label>>
    /\ UNCHANGED <<key_dtype, merges>>

Init ==
    /\ batch \in Batches
    /\ json_data = batch
    /\ pc = "start"
    /\ err = "none"
    /\ run = 1
    /\ df_orders = EmptyFrame
    /\ df_payment_methods = EmptyFrame
    /\ df_transactions = EmptyFrame
    /\ df_customers = EmptyFrame
    /\ feature_matrix = EmptyFrame
    /\ user_emails = <<>>
    /\ first = [pc |-> "none"]
    /\ y_pred_label = <<>>
    /\ output_file = NoFile
    /\ key_dtype = RawKeys
    /\ merges = <<>>

Next ==
    \/ ProcessJsonData
    \/ DfCustomersFeatures
    \/ DfOrdersFeatures
    \/ DfPaymentMethodsFeatures
    \/ DfTransactionsFeatures
    \/ FeatureMatrixCleaning
    \/ Predict
    \/ AssertLengths
    \/ SaveOutput

Spec == Init /\ [][Next]_vars
-----------------------------------------------------------------------------
(* What the claims speak of, read off the batch as it was given *)

EmailOf(i) == batch[i].customer.customerEmail
AddressOf(i) == batch[i].customer.customerBillingAddress
DistinctEmails == {EmailOf(i) : i \in DOMAIN batch}

\* the elements of one kind that record i holds
ItemsOf(i, kind) == IF batch[i][kind].present THEN batch[i][kind].items ELSE <<>>

\* where the elements of the customer with email e are: <<record, position>>
Owned(e, kind) ==
    UNION {{<<i, j>> : j \in DOMAIN ItemsOf(i, kind)} :
            i \in {k \in DOMAIN batch : EmailOf(k) = e}}
OwnedWhere(e, kind, Test(_)) ==
    {ij \in Owned(e, kind) : Test(ItemsOf(ij[1], kind)[ij[2]])}

RECURSIVE Total(_, _)
\* the number of elements of one kind in the first n records
Total(n, kind) == IF n = 0 THEN 0 ELSE Total(n - 1, kind) + Len(ItemsOf(n, kind))

AllLabelled == \A i \in DOMAIN batch : batch[i].fraudulent # NoKey
Returned == pc = "matrix"

-----------------------------------------------------------------------------
(* C1 *)

\* C1 as stated: the returned feature matrix has exactly as many rows as the
\* batch has distinct customerEmail values, also when records share an email.
C1_RowsAreDistinctEmails ==
    Returned => Len(feature_matrix) = Cardinality(DistinctEmails)

\* C1, amended: the returned feature matrix has exactly one row per input
\* record, whatever the number of related rows; that is the number of distinct
\* emails exactly when no two records share an email.
C1_RowsAreRecords ==
    Returned =>
        /\ Len(feature_matrix) = Len(batch)
        /\ Len(feature_matrix) = Cardinality(DistinctEmails)
              <=> \A i, j \in DOMAIN batch : EmailOf(i) = EmailOf(j) => i = j

C1_Witness ==
    /\ Returned
    /\ \E i, j \in DOMAIN batch : i # j /\ EmailOf(i) = EmailOf(j)
    /\ Len(feature_matrix) = 3

-----------------------------------------------------------------------------
(* C2 *)

OrderDefaults(r) ==
    /\ r.TotalOrders = 0
    /\ r.AverageOrderAmount = Zero
    /\ r.FailedOrders = 0
    /\ r.UniqueShippingAddresses = 0
    /\ r.FailedOrderRatio = Zero
PaymentDefaults(r) ==
    /\ r.HasCard = 0 /\ r.HasApplePay = 0 /\ r.HasPaypal = 0 /\ r.HasBitcoin = 0
    /\ r.UniquePaymentMethodTypes = 0
    /\ r.NumberOfUniquePaymentMethods = 0
    /\ r.PaymentRegistrationFailures = 0
    /\ r.FailureRatio = Zero
TransactionDefaults(r) ==
    /\ r.NumberOfTransactions = 0
    /\ r.AverageTransactionAmount = Zero
    /\ r.NumberOfFailedTransactions = 0
    /\ r.FailedTransactionFraction = Zero

\* C2: for a batch of labelled records, a customer with no orders, no payment
\* methods or no transactions does not stop the pipeline (also when the table of
\* that kind is empty), and the customer's row holds the defaults of that kind.
C2_EmptyKindsGetDefaults ==
    \A i \in DOMAIN batch :
        /\ AllLabelled /\ Owned(EmailOf(i), "orders") = {} =>
              /\ pc # "crashed"
              /\ Returned => OrderDefaults(feature_matrix[i])
        /\ AllLabelled /\ Owned(EmailOf(i), "paymentMethods") = {} =>
              /\ pc # "crashed"
              /\ Returned => PaymentDefaults(feature_matrix[i])
        /\ AllLabelled /\ Owned(EmailOf(i), "transactions") = {} =>
              /\ pc # "crashed"
              /\ Returned => TransactionDefaults(feature_matrix[i])

-----------------------------------------------------------------------------
(* C3 *)

Quotient(n, d) == IF d > 0 THEN Num(n, d) ELSE Zero

\* C3: in the final matrix each ratio is numerator/denominator when the
\* denominator is above 0 and is 0 when the denominator is 0, whatever the
\* numerator; never infinity or NaN.
C3_RatiosAreDefined ==
    Returned =>
        \A i \in DOMAIN feature_matrix :
            /\ feature_matrix[i].FailedOrderRatio =
                  Quotient(feature_matrix[i].FailedOrders,
                           feature_matrix[i].TotalOrders)
            /\ feature_matrix[i].FailureRatio =
                  Quotient(feature_matrix[i].PaymentRegistrationFailures,
                           feature_matrix[i].NumberOfUniquePaymentMethods)
            /\ feature_matrix[i].FailedTransactionFraction =
                  Quotient(feature_matrix[i].NumberOfFailedTransactions,
                           feature_matrix[i].NumberOfTransactions)

-----------------------------------------------------------------------------
(* C4 *)

\* the row of a table that element j of record i became
RowOf(df, i, j, kind) == df[Total(i - 1, kind) + j]

CameFrom(df, kind) ==
    /\ Len(df) = Total(Len(batch), kind)
    /\ \A i \in DOMAIN batch : \A j \in DOMAIN ItemsOf(i, kind) :
          RowOf(df, i, j, kind) =
              [ItemsOf(i, kind)[j] EXCEPT !.customerEmail = EmailOf(i)]

\* C4: process_json_data returns as many order, payment-method and transaction
\* rows as the records hold elements of that kind (an absent list holds none),
\* one customer row per record, and every related row carries the email of the
\* record it came from, whatever customerEmail the element had before.
C4_TablesHoldEveryElement ==
    pc = "normalized" =>
        /\ CameFrom(df_orders, "orders")
        /\ CameFrom(df_payment_methods, "paymentMethods")
        /\ CameFrom(df_transactions, "transactions")
        /\ Len(df_customers) = Len(batch)
        /\ \A i \in DOMAIN batch : df_customers[i].customerEmail = EmailOf(i)

C4_Witness ==
    /\ pc = "normalized"
    /\ run = 1
    /\ \E i \in DOMAIN batch :
          /\ ~batch[i].transactions.present
          /\ \E j \in DOMAIN ItemsOf(i, "orders") :
                ItemsOf(i, "orders")[j].customerEmail \notin {NoKey, EmailOf(i)}

-----------------------------------------------------------------------------
(* C5 *)

InputEmails == [i \in DOMAIN batch |-> EmailOf(i)]

\* row i of the matrix is made of the i-th record's customer: its label, its
\* address and the elements held under its email
RowIsOf(r, i) ==
    /\ r.fraudulent = (IF batch[i].fraudulent = "True" THEN 1 ELSE 0)
    /\ r.EmailCount = Cardinality({k \in DOMAIN batch : EmailOf(k) = EmailOf(i)})
    /\ r.IsBillingAddressShared = 1
          <=> \E k \in DOMAIN batch : k # i /\ AddressOf(k) = AddressOf(i)
    /\ r.TotalOrders = Cardinality(Owned(EmailOf(i), "orders"))
    /\ r.NumberOfTransactions = Cardinality(Owned(EmailOf(i), "transactions"))
    /\ r.PaymentRegistrationFailures =
          Cardinality(OwnedWhere(EmailOf(i), "paymentMethods",
                                 LAMBDA m : m.paymentMethodRegistrationFailure))

\* C5: the email list is as long as the matrix, its i-th email is the email of
\* the customer whose features are row i, and no stage changes the number or the
\* order of the customer rows: the list is the records' emails in input order.
C5_EmailsFollowRows ==
    /\ Returned =>
          /\ Len(user_emails) = Len(feature_matrix)
          /\ user_emails = InputEmails
          /\ \A i \in DOMAIN feature_matrix : RowIsOf(feature_matrix[i], i)
    /\ InPipeline(pc) => Column(df_customers, "customerEmail") = InputEmails

C5_Witness ==
    /\ Returned
    /\ Len(batch) = 2
    /\ EmailOf(1) = "b@x" /\ EmailOf(2) = "a@x"
    /\ Owned("b@x", "orders") = {} /\ Owned("a@x", "orders") # {}

-----------------------------------------------------------------------------
(* C6 *)

\* C6: running the pipeline a second time on the same in-memory batch, which the
\* first run has written 'customerEmail' and 'fraudulent' keys into, ends as the
\* first run did, with the same matrix and the same email list.
C6_SecondRunIsTheSame ==
    run = 2 /\ pc \in {"matrix", "crashed"} => Outcome = first

C6_Witness ==
    /\ run = 2
    /\ Returned
    /\ json_data # batch
    /\ first.pc = "matrix"
    /\ \E i \in DOMAIN batch : \E j \in DOMAIN ItemsOf(i, "orders") :
          ItemsOf(i, "orders")[j].customerEmail \notin {NoKey, EmailOf(i)}

-----------------------------------------------------------------------------
(* C7 *)

FeatureColumns ==
    {"EmailCount", "IsBillingAddressShared", "TotalOrders", "AverageOrderAmount",
     "FailedOrders", "FailedOrderRatio", "UniqueShippingAddresses", "HasCard",
     "HasApplePay", "HasPaypal", "HasBitcoin", "UniquePaymentMethodTypes",
     "NumberOfUniquePaymentMethods", "PaymentRegistrationFailures", "FailureRatio",
     "NumberOfTransactions", "AverageTransactionAmount",
     "NumberOfFailedTransactions", "FailedTransactionFraction"}

Unlabelled == batch # <<>> /\ \A i \in DOMAIN batch : batch[i].fraudulent = NoKey

\* C7: on records without a 'fraudulent' label the pipeline still completes and
\* returns the matrix without a 'fraudulent' column, and run_model.py predicts on
\* it; with the label, 'fraudulent' is the only column that is not a feature.
C7_UnlabelledRecordsAreScored ==
    /\ Unlabelled =>
          /\ pc # "crashed"
          /\ Returned => Columns(feature_matrix) = FeatureColumns
    /\ AllLabelled /\ Returned /\ batch # <<>> =>
          Columns(feature_matrix) = FeatureColumns \cup {"fraudulent"}

-----------------------------------------------------------------------------
(* C8 *)

Aborted == pc = "crashed" /\ err = "AssertionError"

\* C8: the lengths of the predicted labels and of the email list are compared
\* before the output file is opened: whenever they differ the run has aborted
\* with the assertion failure and there is no output file, and whenever the file
\* is there the two lengths were equal.
C8_NoFileOnMismatch ==
    /\ output_file.exists => pc = "saved" /\ Len(y_pred_label) = Len(user_emails)
    /\ pc \in {"asserted", "saved"} => Len(y_pred_label) = Len(user_emails)
    /\ Aborted => Len(y_pred_label) # Len(user_emails) /\ ~output_file.exists

\* C8 as a property of steps: the file changes only in a step taken after the
\* assert has passed
C8_AssertBeforeOpen ==
    [][output_file' # output_file =>
          pc = "asserted" /\ Len(y_pred_label) = Len(user_emails)]_vars

C8_Witness ==
    /\ Aborted
    /\ Len(y_pred_label) > Len(user_emails)
    /\ Len(user_emails) > 0
    /\ ~output_file.exists

-----------------------------------------------------------------------------
(* C9 *)

\* C9: IsBillingAddressShared is 1 exactly for the customer rows whose billing
\* address is on more than one customer row of the batch, and 0 for the others.
C9_SharedAddressIsBatchWide ==
    Returned =>
        \A i \in DOMAIN feature_matrix :
            feature_matrix[i].IsBillingAddressShared =
                IF Cardinality({k \in DOMAIN batch : AddressOf(k) = AddressOf(i)}) > 1
                    THEN 1 ELSE 0

C9_Witness ==
    /\ Returned
    /\ Len(batch) = 3
    /\ AddressOf(1) = AddressOf(3) /\ AddressOf(2) # AddressOf(1)
    /\ EmailOf(1) # EmailOf(3)
    /\ feature_matrix[1].IsBillingAddressShared = 1
    /\ feature_matrix[2].IsBillingAddressShared = 0
    /\ feature_matrix[3].IsBillingAddressShared = 1

-----------------------------------------------------------------------------
(* C10 *)

HasType(e, type) ==
    OwnedWhere(e, "paymentMethods", LAMBDA m : m.paymentMethodType = type) # {}
Indicator(e, type) == IF HasType(e, type) THEN 1 ELSE 0

\* C10: each of HasCard, HasApplePay, HasPaypal and HasBitcoin is 1 exactly when
\* the customer has a payment method of that very type; a method of another type
\* sets none of them and still counts in UniquePaymentMethodTypes.
C10_IndicatorsFollowTypes ==
    Returned =>
        \A i \in DOMAIN feature_matrix :
            /\ feature_matrix[i].HasCard = Indicator(EmailOf(i), "card")
            /\ feature_matrix[i].HasApplePay = Indicator(EmailOf(i), "apple pay")
            /\ feature_matrix[i].HasPaypal = Indicator(EmailOf(i), "paypal")
            /\ feature_matrix[i].HasBitcoin = Indicator(EmailOf(i), "bitcoin")
            /\ feature_matrix[i].UniquePaymentMethodTypes =
                  Cardinality({t \in MethodTypes : HasType(EmailOf(i), t)})

C10_Witness ==
    /\ Returned
    /\ \E i \in DOMAIN feature_matrix :
          /\ HasType(EmailOf(i), "other")
          /\ HasType(EmailOf(i), "paypal")
          /\ feature_matrix[i].HasPaypal = 1
          /\ feature_matrix[i].HasCard = 0
          /\ feature_matrix[i].UniquePaymentMethodTypes = 2
-----------------------------------------------------------------------------
(* C11 *)

\* C11: in every aggregator, each merge on customerEmail is done with the key of
\* the customer table and the key of the related table both already cast to
\* str: no merge runs while either side's key is still as it was built.
C11_KeysCoercedBeforeEveryMerge ==
    \A i \in DOMAIN merges : merges[i].left = "str" /\ merges[i].right = "str"
====
